---------------------------- MODULE Spec2Model ----------------------------
(***************************************************************************)
(* A model of gaustin06/pdftowordconverter:                                *)
(*   src/simple_pdf_converter.py  SimplePDFConverter (classifier,          *)
(*                                paragraph assembler, table filter,       *)
(*                                document builder, batch conversion)      *)
(*   src/app.py                   WebPDFConverter and the Flask handlers   *)
(*                                                                         *)
(* A string is a sequence of characters, a character a one-element TLA+    *)
(* string; the two non-ASCII bullet glyphs are the characters Bullet and   *)
(* Circle.                                                                 *)
(***************************************************************************)
EXTENDS Integers, Sequences, FiniteSets, TLC

VARIABLES
    text_lines,         \* process_text_content: the lines handed in
    i,                  \* process_text_content: 1-based index of the next line
    doc,                \* the python-docx Document: its sequence of blocks
    current_paragraph,  \* 0 for None, else the index in doc of the open paragraph
    content,            \* create_word_document: the pages handed in
    page_idx,           \* create_word_document: 1-based index of the next page
    all_text_lines,     \* create_word_document: the lines collected so far
    all_tables,         \* create_word_document: the tables kept so far
    table_idx,          \* create_word_document: 1-based index of the next table
    cw_pc,              \* create_word_document: "collect", "tables" or "idle"
    disk,               \* the output files: path -> the document saved there
    calls,              \* the calls of convert_pdf_to_word so far, with their outcome
    pdf_files,          \* convert_all: the paths handed in
    valid_pdfs,         \* convert_all: the paths validate_pdf_files kept
    results,            \* convert_all: the results dict
    file_idx,           \* convert_all: 1-based index of the next valid file
    ca_pc,              \* convert_all: "validate", "loop", "done", "raised" or "idle"
    file_paths,         \* /convert: the paths of the request
    job_id,             \* /convert: the uuid drawn for the job
    handler_pc,         \* /convert: "request", "started", "returned", "rejected" or "idle"
    conversion_jobs,    \* app.py: the global dict job_id -> job record
    events,             \* the socketio events emitted so far
    thread_pc,          \* convert_files_with_progress: where the thread is
    loop_idx,           \* convert_files_with_progress: 1-based index of the current file
    converted_files,    \* convert_files_with_progress: the local list
    failed_files,       \* convert_files_with_progress: the local list
    status_reply        \* /job_status: the last reply given

asmVars == <<text_lines, i, current_paragraph>>
docVars == <<content, page_idx, all_text_lines, all_tables, table_idx, cw_pc>>
convVars == <<disk, calls>>
batchVars == <<pdf_files, valid_pdfs, results, file_idx, ca_pc>>
webVars == <<file_paths, job_id, handler_pc, conversion_jobs, events, thread_pc,
             loop_idx, converted_files, failed_files, status_reply>>

vars == <<asmVars, doc, docVars, convVars, batchVars, webVars>>

---------------------------------------------------------------------------
(* Characters and the str methods the converter uses.                      *)

Bullet == "u2022"
Circle == "u25CB"
NL == "\n"

UpperChars == <<"A","B","C","D","E","F","G","H","I","J","K","L","M","N","O","P","Q","R","S","T","U","V","W","X","Y","Z">>
LowerChars == <<"a","b","c","d","e","f","g","h","i","j","k","l","m","n","o","p","q","r","s","t","u","v","w","x","y","z">>
Digits == {"0","1","2","3","4","5","6","7","8","9"}
Whitespace == {" ", "\t", NL}

UpperSet == {UpperChars[k] : k \in 1..Len(UpperChars)}
LowerSet == {LowerChars[k] : k \in 1..Len(LowerChars)}

IsUpperChar(c) == c \in UpperSet
IsLowerChar(c) == c \in LowerSet

LowerChar(c) ==
    IF c \in UpperSet
    THEN LowerChars[CHOOSE k \in 1..Len(UpperChars) : UpperChars[k] = c]
    ELSE c

SetMin(S) == CHOOSE x \in S : \A y \in S : x <= y
SetMax(S) == CHOOSE x \in S : \A y \in S : x >= y

\* str.strip()
strip(s) ==
    LET keep == {k \in 1..Len(s) : s[k] \notin Whitespace}
    IN  IF keep = {} THEN <<>> ELSE SubSeq(s, SetMin(keep), SetMax(keep))

\* str.lower()
lower(s) == [k \in 1..Len(s) |-> LowerChar(s[k])]

\* str.isupper(): at least one cased character, and no lowercase one
isupper(s) ==
    /\ \E k \in 1..Len(s) : IsUpperChar(s[k])
    /\ \A k \in 1..Len(s) : ~IsLowerChar(s[k])

\* str.isdigit()
isdigit(s) == s # <<>> /\ \A k \in 1..Len(s) : s[k] \in Digits

endswith(s, suf) ==
    Len(suf) <= Len(s) /\ SubSeq(s, Len(s) - Len(suf) + 1, Len(s)) = suf

startswith(s, pre) == Len(pre) <= Len(s) /\ SubSeq(s, 1, Len(pre)) = pre

\* sub in s
contains(s, sub) ==
    \E k \in 1..(Len(s) - Len(sub) + 1) : SubSeq(s, k, k + Len(sub) - 1) = sub

---------------------------------------------------------------------------
(* The line classifier: is_main_title, is_subtitle, is_bullet_point,       *)
(* clean_bullet_point.                                                     *)

PageNumberMaxLen == 3
MainTitleMaxLen == 150
UppercaseTitleLen == 80
KeywordTitleLen == 100
SubtitleMaxLen == 120
SubtitleLen == 120

TitleKeywords == {
    <<"o","v","e","r","v","i","e","w">>,
    <<"i","n","t","r","o","d","u","c","t","i","o","n">>,
    <<"b","e","n","e","f","i","t","s">>,
    <<"f","e","a","t","u","r","e","s">>,
    <<"s","o","l","u","t","i","o","n">>,
    <<"s","e","r","v","i","c","e","s">>,
    <<"w","h","y">>,
    <<"h","o","w">>,
    <<"w","h","a","t">>,
    <<"b","r","a","n","d","e","d"," ","c","a","l","l","i","n","g">>,
    <<"p","r","o","d","u","c","t","i","v","i","t","y">>,
    <<"a","p","p","e","n","d","i","x">>,
    <<"m","e","t","h","o","d","o","l","o","g","y">>,
    <<"v","e","r","i","z","o","n">>,
    <<"e","m","p","o","w","e","r","m","e","n","t">> }

SubtitleKeywords == {
    <<"c","r","e","a","t","e">>,
    <<"p","r","o","j","e","c","t">>,
    <<"c","u","s","t","o","m","e","r">>,
    <<"w","o","r","k","s","h","o","p">>,
    <<"d","e","l","i","v","e","r","a","b","l","e","s">>,
    <<"f","i","n","d","i","n","g","s">>,
    <<"d","i","f","f","e","r","e","n","t">>,
    <<"c","a","l","l","i","n","g">>,
    <<"p","r","o","f","i","l","e","s">>,
    <<"a","n","s","w","e","r">>,
    <<"q","u","a","n","d","a","r","y">> }

BulletMarkers == <<Bullet, "-", "*", Circle>>

is_main_title(line) ==
    IF line = <<>> \/ Len(line) > MainTitleMaxLen THEN FALSE
    ELSE IF Len(line) < UppercaseTitleLen /\ isupper(line) THEN TRUE
    ELSE IF /\ Len(line) < KeywordTitleLen
            /\ ~endswith(line, <<".">>)
            /\ ~endswith(line, <<",">>)
            /\ IsUpperChar(line[1])
            /\ \E word \in TitleKeywords : contains(lower(line), word)
         THEN TRUE
    ELSE FALSE

is_subtitle(line) ==
    IF line = <<>> \/ Len(line) > SubtitleMaxLen THEN FALSE
    ELSE IF /\ Len(line) < SubtitleLen
            /\ IsUpperChar(line[1])
            /\ \/ endswith(line, <<"?">>)
               \/ /\ ~endswith(line, <<".">>) /\ ~endswith(line, <<",">>)
                  /\ \E word \in SubtitleKeywords : contains(lower(line), word)
         THEN TRUE
    ELSE FALSE

is_bullet_point(line) ==
    \/ \E m \in 1..Len(BulletMarkers) : startswith(line, <<BulletMarkers[m]>>)
    \/ \E d \in Digits : startswith(line, <<d, ".">>)

\* the number of leading characters of s that are in set C
LeadingIn(s, C) ==
    LET stops == {k \in 1..Len(s) : s[k] \notin C}
    IN  IF stops = {} THEN Len(s) ELSE SetMin(stops) - 1

clean_bullet_point(line) ==
    IF \E m \in 1..Len(BulletMarkers) : startswith(line, <<BulletMarkers[m]>>)
    THEN strip(SubSeq(line, 2, Len(line)))
    ELSE LET nd == LeadingIn(line, Digits)
         IN  IF nd >= 1 /\ nd < Len(line) /\ line[nd + 1] = "."
             THEN LET rest == SubSeq(line, nd + 2, Len(line))
                  IN  SubSeq(rest, LeadingIn(rest, Whitespace) + 1, Len(rest))
             ELSE line

---------------------------------------------------------------------------
(* The paragraph assembler: process_text_content.                          *)

Heading(text, level) == [kind |-> "heading", level |-> level, text |-> text, cells |-> <<>>]
Paragraph(text) == [kind |-> "paragraph", level |-> 0, text |-> text, cells |-> <<>>]
ListItem(text) == [kind |-> "list_item", level |-> 0, text |-> text, cells |-> <<>>]

\* the branch of the loop body that handles a stripped line: the first test that matches
BranchBulletFirst(line) ==
    IF line = <<>> THEN "blank"
    ELSE IF isdigit(line) /\ Len(line) <= PageNumberMaxLen THEN "page_number"
    ELSE IF is_bullet_point(line) THEN "bullet"
    ELSE IF is_main_title(line) THEN "main_title"
    ELSE IF is_subtitle(line) THEN "subtitle"
    ELSE "plain"

Branch(line) ==
    IF line = <<>> THEN "blank"
    ELSE IF isdigit(line) /\ Len(line) <= PageNumberMaxLen THEN "page_number"
    ELSE IF is_main_title(line) THEN "main_title"
    ELSE IF is_subtitle(line) THEN "subtitle"
    ELSE IF is_bullet_point(line) THEN "bullet"
    ELSE "plain"

EndsSentence(line) ==
    \/ endswith(line, <<".">>) \/ endswith(line, <<":">>)
    \/ endswith(line, <<"!">>) \/ endswith(line, <<"?">>)

\* lines 171-176 without next_line[0].isupper()
LookaheadClosesNoUpper(next_line) ==
    IF next_line # <<>>
    THEN \/ next_line = <<>>
         \/ is_main_title(next_line)
         \/ is_subtitle(next_line)
         \/ is_bullet_point(next_line)
    ELSE FALSE

\* the condition of lines 172-176: Python reads it as
\*   (not next_line or ... or next_line[0].isupper()) if next_line else False
LookaheadCloses(next_line) ==
    IF next_line # <<>>
    THEN \/ next_line = <<>>
         \/ is_main_title(next_line)
         \/ is_subtitle(next_line)
         \/ is_bullet_point(next_line)
         \/ IsUpperChar(next_line[1])
    ELSE FALSE

\* text_lines[i + 1].strip() if i + 1 < len(text_lines) else ""   (idx is 1-based)
NextLine(lines, idx) == IF idx + 1 <= Len(lines) THEN strip(lines[idx + 1]) ELSE <<>>

\* The branch bodies: each takes and gives the pair [doc, cur].
BlankBody(st) == [doc |-> st.doc, cur |-> 0]

PageNumberBody(st) == st

MainTitleBody(st, line) == [doc |-> Append(st.doc, Heading(line, 1)), cur |-> 0]

SubtitleBody(st, line) == [doc |-> Append(st.doc, Heading(line, 2)), cur |-> 0]

BulletBody(st, line) == [doc |-> Append(st.doc, ListItem(clean_bullet_point(line))), cur |-> 0]

PlainBody(st, line, next_line) ==
    LET opened == IF st.cur = 0
                  THEN [doc |-> Append(st.doc, Paragraph(<<>>)), cur |-> Len(st.doc) + 1]
                  ELSE st
        old == opened.doc[opened.cur].text
        new == IF old # <<>> THEN old \o <<" ">> \o line ELSE old \o line
        added == [opened.doc EXCEPT ![opened.cur].text = new]
    IN  [doc |-> added,
         cur |-> IF EndsSentence(line) /\ LookaheadCloses(next_line)
                 THEN 0 ELSE opened.cur]

\* one iteration of the loop of process_text_content, on line idx of lines
LoopBody(st, lines, idx) ==
    LET line == strip(lines[idx])
        b == Branch(line)
    IN  CASE b = "blank" -> BlankBody(st)
          [] b = "page_number" -> PageNumberBody(st)
          [] b = "main_title" -> MainTitleBody(st, line)
          [] b = "subtitle" -> SubtitleBody(st, line)
          [] b = "bullet" -> BulletBody(st, line)
          [] b = "plain" -> PlainBody(st, line, NextLine(lines, idx))

RECURSIVE RunLoop(_, _, _)
RunLoop(st, lines, idx) ==
    IF idx > Len(lines) THEN st ELSE RunLoop(LoopBody(st, lines, idx), lines, idx + 1)

\* process_text_content(doc, text_lines): the document after the whole loop
process_text_content(d, lines) == RunLoop([doc |-> d, cur |-> 0], lines, 1).doc

---------------------------------------------------------------------------
(* Specification SpecAsm: process_text_content, one loop iteration a step. *)

MaxLines == 3

SampleLines == {
    <<>>,
    <<" ">>,
    <<"1","2">>,
    <<"1","2","3","4">>,
    <<"O","V","E","R","V","I","E","W">>,
    <<Bullet," ","O","V","E","R","V","I","E","W">>,
    <<"W","h","y","?">>,
    <<"O","k","?">>,
    <<"-"," ","i","t","e","m">>,
    <<"1","."," ","o","n","e">>,
    <<"T","h","i","s"," ","i","s"," ","a"," ","s","e","n","t","e","n","c","e",".">>,
    <<"t","h","i","s"," ","c","o","n","t","i","n","u","e","s",".">>,
    <<"N","e","x","t"," ","s","t","a","r","t","s"," ","h","e","r","e",".">>,
    <<"a","n","d"," ","m","o","r","e">>,
    <<"T","a","i","l">>,
    <<" ","S","o",":"," ">> }

SeqsUpTo(S, n) == UNION {[1..m -> S] : m \in 0..n}

DocIdle ==
    /\ content = <<>>
    /\ page_idx = 1
    /\ all_text_lines = <<>>
    /\ all_tables = <<>>
    /\ table_idx = 1
    /\ cw_pc = "idle"

ConvIdle ==
    /\ disk = <<>>
    /\ calls = <<>>

BatchIdle ==
    /\ pdf_files = <<>>
    /\ valid_pdfs = <<>>
    /\ results = [successful |-> 0, failed |-> 0, files |-> <<>>]
    /\ file_idx = 1
    /\ ca_pc = "idle"

WebIdle ==
    /\ file_paths = <<>>
    /\ job_id = <<>>
    /\ handler_pc = "idle"
    /\ conversion_jobs = <<>>
    /\ events = <<>>
    /\ thread_pc = "idle"
    /\ loop_idx = 1
    /\ converted_files = <<>>
    /\ failed_files = <<>>
    /\ status_reply = [queried |-> <<>>, found |-> FALSE, status |-> "", completed |-> 0]

AsmInit ==
    /\ text_lines \in SeqsUpTo(SampleLines, MaxLines)
    /\ i = 1
    /\ doc = <<>>
    /\ current_paragraph = 0
    /\ DocIdle
    /\ ConvIdle /\ BatchIdle /\ WebIdle

AsmState == [doc |-> doc, cur |-> current_paragraph]

AsmApply(st) ==
    /\ doc' = st.doc
    /\ current_paragraph' = st.cur
    /\ i' = i + 1
    /\ UNCHANGED <<text_lines, docVars, convVars, batchVars, webVars>>

AsmAt(b) == i <= Len(text_lines) /\ Branch(strip(text_lines[i])) = b

SkipBlank == AsmAt("blank") /\ AsmApply(BlankBody(AsmState))

SkipPageNumber == AsmAt("page_number") /\ AsmApply(PageNumberBody(AsmState))

EmitMainTitle == AsmAt("main_title") /\ AsmApply(MainTitleBody(AsmState, strip(text_lines[i])))

EmitSubtitle == AsmAt("subtitle") /\ AsmApply(SubtitleBody(AsmState, strip(text_lines[i])))

EmitBullet == AsmAt("bullet") /\ AsmApply(BulletBody(AsmState, strip(text_lines[i])))

AddPlainText ==
    /\ AsmAt("plain")
    /\ AsmApply(PlainBody(AsmState, strip(text_lines[i]), NextLine(text_lines, i)))

AsmNext ==
    \/ SkipBlank
    \/ SkipPageNumber
    \/ EmitMainTitle
    \/ EmitSubtitle
    \/ EmitBullet
    \/ AddPlainText

SpecAsm == AsmInit /\ [][AsmNext]_vars

---------------------------------------------------------------------------
(* Tables: has_meaningful_content and add_table_to_document.  A cell is    *)
(* None or a string: None is <<>> and the string s is <<s>>.               *)

NoneCell == <<>>
Str(s) == <<s>>

\* cell and str(cell).strip()
CellHasContent(cell) == cell # NoneCell /\ cell[1] # <<>> /\ strip(cell[1]) # <<>>

\* the inner loop of has_meaningful_content over row[k..], on the two counters
RECURSIVE CountRow(_, _, _)
CountRow(row, k, acc) ==
    IF k > Len(row) THEN acc
    ELSE CountRow(row, k + 1,
            [total_cells |-> acc.total_cells + 1,
             cells_with_content |-> IF CellHasContent(row[k])
                                    THEN acc.cells_with_content + 1
                                    ELSE acc.cells_with_content])

\* the outer loop over table_data[r..]
RECURSIVE CountTable(_, _, _)
CountTable(table_data, r, acc) ==
    IF r > Len(table_data) THEN acc
    ELSE CountTable(table_data, r + 1, CountRow(table_data[r], 1, acc))

\* line 118 with > in place of >=
has_meaningful_content_strict(table_data) ==
    IF table_data = <<>> THEN FALSE
    ELSE LET n == CountTable(table_data, 1, [total_cells |-> 0, cells_with_content |-> 0])
         IN  n.total_cells > 0 /\ 10 * n.cells_with_content > 3 * n.total_cells

\* cells_with_content / total_cells >= 0.3 is a comparison of doubles: the
\* quotient is the double nearest the ratio, 0.3 the double nearest 3/10, and
\* rounding is monotonic, so below 10^15 cells it is the exact comparison
\* 10 * cells_with_content >= 3 * total_cells.
has_meaningful_content(table_data) ==
    IF table_data = <<>> THEN FALSE
    ELSE LET n == CountTable(table_data, 1, [total_cells |-> 0, cells_with_content |-> 0])
         IN  n.total_cells > 0 /\ 10 * n.cells_with_content >= 3 * n.total_cells

TableBlock(cells) == [kind |-> "table", level |-> 0, text |-> <<>>, cells |-> cells]

\* lines 294-303
CleanData(table_data) ==
    [r \in 1..Len(table_data) |->
        [c \in 1..Len(table_data[r]) |->
            IF table_data[r][c] # NoneCell THEN strip(table_data[r][c][1]) ELSE <<>>]]

\* doc.add_table(rows, cols) gives empty cells; lines 318-321 fill those a row has
FilledTable(clean_data, max_cols) ==
    [r \in 1..Len(clean_data) |->
        [c \in 1..max_cols |->
            IF c <= Len(clean_data[r]) THEN clean_data[r][c] ELSE <<>>]]

\* add_table_to_document(doc, table_data): the document afterwards
add_table_to_document(d, table_data) ==
    IF table_data = <<>> \/ table_data[1] = <<>> THEN d
    ELSE LET clean_data == CleanData(table_data)
         IN  IF ~\E r \in 1..Len(clean_data) :
                    \E c \in 1..Len(clean_data[r]) : clean_data[r][c] # <<>>
             THEN d
             ELSE LET max_cols == SetMax({Len(clean_data[r]) : r \in 1..Len(clean_data)})
                  IN  IF max_cols = 0 THEN d
                      ELSE d \o <<TableBlock(FilledTable(clean_data, max_cols)),
                                  Paragraph(<<>>)>>

---------------------------------------------------------------------------
(* The document builder: create_word_document.                             *)

\* s.split(sep) for a one-character sep
RECURSIVE split(_, _)
split(s, sep) ==
    LET at == {k \in 1..Len(s) : s[k] = sep}
    IN  IF at = {} THEN <<s>>
        ELSE <<SubSeq(s, 1, SetMin(at) - 1)>> \o split(SubSeq(s, SetMin(at) + 1, Len(s)), sep)

\* the tables of a page that lines 251-253 keep, in order
RECURSIVE KeptTables(_, _)
KeptTables(tables, k) ==
    IF k > Len(tables) THEN <<>>
    ELSE (IF tables[k] # <<>> /\ has_meaningful_content(tables[k])
          THEN <<tables[k]>> ELSE <<>>) \o KeptTables(tables, k + 1)

\* lines 246-253 putting a page's tables in front of those kept so far
CollectBodyTablesInFront(acc, page_info) ==
    [lines |-> acc.lines \o split(page_info.text, NL),
     tables |-> KeptTables(page_info.tables, 1) \o acc.tables]

\* one iteration of the loop of lines 246-253, on the pair [lines, tables]
CollectBody(acc, page_info) ==
    [lines |-> acc.lines \o split(page_info.text, NL),
     tables |-> acc.tables \o KeptTables(page_info.tables, 1)]

RECURSIVE CollectFrom(_, _, _)
CollectFrom(acc, pages, p) ==
    IF p > Len(pages) THEN acc ELSE CollectFrom(CollectBody(acc, pages[p]), pages, p + 1)

\* the loop of lines 259-260 from table t on
RECURSIVE AddTablesFrom(_, _, _)
AddTablesFrom(d, tables, t) ==
    IF t > Len(tables) THEN d
    ELSE AddTablesFrom(add_table_to_document(d, tables[t]), tables, t + 1)

\* create_word_document(content, title): the document returned
create_word_document(pages) ==
    LET acc == CollectFrom([lines |-> <<>>, tables |-> <<>>], pages, 1)
    IN  AddTablesFrom(process_text_content(<<>>, acc.lines), acc.tables, 1)

---------------------------------------------------------------------------
(* Specifications SpecDoc and SpecTable: create_word_document, a step per  *)
(* page collected, one for the text, and one per table added.  SpecDoc     *)
(* draws a few pages of sample text and tables, SpecTable one page with    *)
(* one table out of many.                                                  *)

MaxPages == 2
MaxRows == 2
MaxCols == 2

TextA == <<"a">>
TextB == <<" ","b"," ">>

\* the spec's examples: 1 of 6 filled, 4 of 6 filled
Sparse16 == << <<Str(TextA), Str(<<>>), Str(<<>>)>>, <<Str(<<>>), Str(<<>>), Str(<<>>)>> >>
Dense46 == << <<Str(TextA), Str(TextB), Str(<<>>)>>, <<Str(TextA), Str(<<>>), Str(TextA)>> >>
\* 3 of 10 filled, 2 of 10 filled
Exact310 == << <<Str(TextA), NoneCell, Str(TextB), NoneCell, NoneCell>>,
               <<Str(<<" ">>), Str(TextA), NoneCell, Str(<<>>), NoneCell>> >>
Below210 == << <<Str(TextA), NoneCell, NoneCell, NoneCell, NoneCell>>,
               <<Str(<<" ">>), Str(TextA), NoneCell, Str(<<>>), NoneCell>> >>
\* rows of length 2, 3, 1
Ragged231 == << <<Str(TextA), Str(TextB)>>, <<NoneCell, Str(TextA), Str(TextA)>>, <<Str(TextB)>> >>
\* an empty first row over a full second row
EmptyFirstRow == << <<>>, <<Str(TextA), Str(TextB)>> >>

SampleTables == {Sparse16, Dense46, Exact310, Below210, Ragged231, EmptyFirstRow}

CellValues == {NoneCell, Str(<<" ">>), Str(TextA)}
Rows == SeqsUpTo(CellValues, MaxCols)
Tables == SeqsUpTo(Rows, MaxRows) \cup SampleTables

PageText1 == <<"O","V","E","R","V","I","E","W",NL,"T","h","i","s"," ","i","s"," ","a"," ","s","e","n","t","e","n","c","e",".">>
PageText2 == <<"t","h","i","s"," ","c","o","n","t","i","n","u","e","s",".",NL,NL,"-"," ","i","t","e","m">>
PageText3 == <<"T","a","i","l">>

SampleTexts == {PageText1, PageText2, PageText3}
SamplePageTables == {<<>>, <<Dense46>>, <<Sparse16, Ragged231>>, <<EmptyFirstRow, Dense46>>, <<Ragged231, Exact310>>}

SamplePages == [page_number : {1}, text : SampleTexts, tables : SamplePageTables]

\* extract_text_from_pdf numbers its pages: page_number is left to the extractor
Numbered(pages) == [p \in 1..Len(pages) |-> [pages[p] EXCEPT !.page_number = p]]

AsmIdle ==
    /\ text_lines = <<>>
    /\ i = 1
    /\ current_paragraph = 0

DocStart ==
    /\ page_idx = 1
    /\ all_text_lines = <<>>
    /\ all_tables = <<>>
    /\ table_idx = 1
    /\ cw_pc = "collect"
    /\ doc = <<>>

DocInit ==
    /\ content \in {Numbered(ps) : ps \in SeqsUpTo(SamplePages, MaxPages)}
    /\ DocStart
    /\ AsmIdle
    /\ ConvIdle /\ BatchIdle /\ WebIdle

TableInit ==
    /\ content \in {<<[page_number |-> 1, text |-> PageText3, tables |-> <<t>>]>> : t \in Tables}
    /\ DocStart
    /\ AsmIdle
    /\ ConvIdle /\ BatchIdle /\ WebIdle

\* lines 246-253, one page
CollectPage ==
    /\ cw_pc = "collect"
    /\ page_idx <= Len(content)
    /\ LET acc == CollectBody([lines |-> all_text_lines, tables |-> all_tables],
                              content[page_idx])
       IN  /\ all_text_lines' = acc.lines
           /\ all_tables' = acc.tables
    /\ page_idx' = page_idx + 1
    /\ UNCHANGED <<content, table_idx, cw_pc, doc, asmVars, convVars, batchVars, webVars>>

\* line 256
ProcessText ==
    /\ cw_pc = "collect"
    /\ page_idx > Len(content)
    /\ doc' = process_text_content(doc, all_text_lines)
    /\ cw_pc' = "tables"
    /\ UNCHANGED <<content, page_idx, all_text_lines, all_tables, table_idx, asmVars,
                   convVars, batchVars, webVars>>

\* lines 259-260, one table
AddTable ==
    /\ cw_pc = "tables"
    /\ table_idx <= Len(all_tables)
    /\ doc' = add_table_to_document(doc, all_tables[table_idx])
    /\ table_idx' = table_idx + 1
    /\ UNCHANGED <<content, page_idx, all_text_lines, all_tables, cw_pc, asmVars,
                   convVars, batchVars, webVars>>

DocNext ==
    \/ CollectPage
    \/ ProcessText
    \/ AddTable

\* create_word_document is at its return
DocReturned == cw_pc = "tables" /\ table_idx > Len(all_tables)

SpecDoc == DocInit /\ [][DocNext]_vars

SpecTable == TableInit /\ [][DocNext]_vars

---------------------------------------------------------------------------
(* Paths, the files behind them, and extract_text_from_pdf.                *)

None == <<>>

Dot == "."
Slash == "/"

\* Path(p).name: what follows the last separator
PathName(path) ==
    LET at == {k \in 1..Len(path) : path[k] = Slash}
    IN  IF at = {} THEN path ELSE SubSeq(path, SetMax(at) + 1, Len(path))

\* Path(p).stem: the name up to its last dot, when that dot is neither first nor last
PathStem(path) ==
    LET name == PathName(path)
        at == {k \in 1..Len(name) : name[k] = Dot}
    IN  IF at # {} /\ SetMax(at) > 1 /\ SetMax(at) < Len(name)
        THEN SubSeq(name, 1, SetMax(at) - 1)
        ELSE name

DocxSuffix == <<".","d","o","c","x">>
PdfSuffix == <<".","p","d","f">>

\* the files of the sample file system: two PDFs of the same name in two
\* folders, one with an uppercase extension whose first page has no text, one
\* that cannot be opened, one whose pages have no text, one that is no PDF,
\* and one path with no file
PathAR == <<"a","/","r",".","p","d","f">>
PathBR == <<"b","/","r",".","p","d","f">>
PathS == <<"S",".","P","D","F">>
PathBad == <<"b","a","d",".","p","d","f">>
PathEmpty == <<"e",".","p","d","f">>
PathTxt == <<"n",".","t","x","t">>
PathGone == <<"x",".","p","d","f">>

SamplePaths == {PathAR, PathBR, PathS, PathBad, PathEmpty, PathTxt, PathGone}

RawPage(text, tables) == [text |-> text, tables |-> tables]

\* what pdfplumber finds at a path: whether open() succeeds, and per page what
\* extract_text() (None or a string) and extract_tables() give
FileAt(path) ==
    CASE path = PathAR ->
            [exists |-> TRUE, opens |-> TRUE,
             pages |-> <<RawPage(Str(PageText1), <<Dense46>>)>>]
      [] path = PathBR ->
            [exists |-> TRUE, opens |-> TRUE,
             pages |-> <<RawPage(Str(PageText3), <<>>)>>]
      [] path = PathS ->
            [exists |-> TRUE, opens |-> TRUE,
             pages |-> <<RawPage(None, <<Dense46>>),
                         RawPage(Str(<<" ">> \o PageText2 \o <<NL>>), <<Ragged231>>)>>]
      [] path = PathBad -> [exists |-> TRUE, opens |-> FALSE, pages |-> <<>>]
      [] path = PathEmpty ->
            [exists |-> TRUE, opens |-> TRUE,
             pages |-> <<RawPage(None, <<>>), RawPage(Str(<<>>), <<Dense46>>)>>]
      [] path = PathTxt -> [exists |-> TRUE, opens |-> FALSE, pages |-> <<>>]
      [] OTHER -> [exists |-> FALSE, opens |-> FALSE, pages |-> <<>>]

\* the loop of lines 85-93 from page p on
RECURSIVE ExtractFrom(_, _)
ExtractFrom(pages, p) ==
    IF p > Len(pages) THEN <<>>
    ELSE (IF pages[p].text # None /\ pages[p].text[1] # <<>>
          THEN <<[page_number |-> p,
                  text |-> strip(pages[p].text[1]),
                  tables |-> pages[p].tables]>>
          ELSE <<>>) \o ExtractFrom(pages, p + 1)

\* extract_text_from_pdf(pdf_path): open() raising is caught and gives []
extract_text_from_pdf(pdf_path) ==
    IF ~FileAt(pdf_path).opens THEN <<>> ELSE ExtractFrom(FileAt(pdf_path).pages, 1)

---------------------------------------------------------------------------
(* convert_pdf_to_word, validate_pdf_files and convert_all.                *)

WordPath(output_folder, pdf_path) ==
    output_folder \o <<Slash>> \o PathStem(pdf_path) \o DocxSuffix

SavedFile(d) == [complete |-> TRUE, doc |-> d]
PartialFile == [complete |-> FALSE, doc |-> <<>>]

SaveOutcomes == {"saved", "raises", "raises_partial"}

\* the record of one call: the pages extracted, whether create_word_document
\* returned, whether doc.save was called, what the call returned (None or the
\* path), and whether an exception left the call
Call(pdf_path, pages, built, save_called, ret, escaped) ==
    [pdf |-> pdf_path, pages |-> pages, built |-> built, save_called |-> save_called,
     ret |-> ret, escaped |-> escaped]

\* the disk after doc.save(word_path): the document, or, when save raises,
\* nothing new or a partly written file
DiskAfterSave(disk0, word_path, d, save) ==
    CASE save = "saved" -> (word_path :> SavedFile(d)) @@ disk0
      [] save = "raises" -> disk0
      [] save = "raises_partial" -> (word_path :> PartialFile) @@ disk0

\* convert_pdf_to_word without its try/except: an exception in
\* create_word_document or doc.save reaches the caller
convert_pdf_to_word_uncaught(output_folder, pdf_path, disk0, build_raises, save) ==
    LET pages == extract_text_from_pdf(pdf_path)
        word_path == WordPath(output_folder, pdf_path)
    IN  IF pages = <<>>
        THEN [call |-> Call(pdf_path, 0, FALSE, FALSE, None, FALSE), disk |-> disk0]
        ELSE IF build_raises
        THEN [call |-> Call(pdf_path, Len(pages), FALSE, FALSE, None, TRUE), disk |-> disk0]
        ELSE IF save # "saved"
        THEN [call |-> Call(pdf_path, Len(pages), TRUE, TRUE, None, TRUE),
              disk |-> DiskAfterSave(disk0, word_path, create_word_document(pages), save)]
        ELSE [call |-> Call(pdf_path, Len(pages), TRUE, TRUE, Str(word_path), FALSE),
              disk |-> DiskAfterSave(disk0, word_path, create_word_document(pages), save)]

\* convert_pdf_to_word(pdf_path) of a converter with this output_folder, on
\* this disk: the call's outcome and the disk afterwards.  build_raises and
\* save are the environment's: whether create_word_document raises, and how
\* doc.save ends.
convert_pdf_to_word(output_folder, pdf_path, disk0, build_raises, save) ==
    LET pages == extract_text_from_pdf(pdf_path)
        word_path == WordPath(output_folder, pdf_path)
    IN  IF pages = <<>>
        THEN [call |-> Call(pdf_path, 0, FALSE, FALSE, None, FALSE), disk |-> disk0]
        ELSE IF build_raises
        THEN [call |-> Call(pdf_path, Len(pages), FALSE, FALSE, None, FALSE), disk |-> disk0]
        ELSE IF save # "saved"
        THEN [call |-> Call(pdf_path, Len(pages), TRUE, TRUE, None, FALSE),
              disk |-> DiskAfterSave(disk0, word_path, create_word_document(pages), save)]
        ELSE [call |-> Call(pdf_path, Len(pages), TRUE, TRUE, Str(word_path), FALSE),
              disk |-> DiskAfterSave(disk0, word_path, create_word_document(pages), save)]

\* validate_pdf_files keeping every path that ends in .pdf, existing or not
RECURSIVE validate_pdf_files_no_exists(_)
validate_pdf_files_no_exists(files) ==
    IF files = <<>> THEN <<>>
    ELSE (IF endswith(lower(Head(files)), PdfSuffix) THEN <<Head(files)>> ELSE <<>>)
         \o validate_pdf_files_no_exists(Tail(files))

\* validate_pdf_files(pdf_files): the list returned
RECURSIVE validate_pdf_files(_)
validate_pdf_files(files) ==
    IF files = <<>> THEN <<>>
    ELSE (IF ~endswith(lower(Head(files)), PdfSuffix) THEN <<>>
          ELSE IF ~FileAt(Head(files)).exists THEN <<>>
          ELSE <<Head(files)>>)
         \o validate_pdf_files(Tail(files))

FileEntry(pdf_file, word_file, status) ==
    [pdf |-> pdf_file, word |-> word_file, status |-> status]

\* lines 403-416 with the entry of a failed file left out
RecordResultNoFailedEntry(res, pdf_file, word_file) ==
    IF word_file # None
    THEN [successful |-> res.successful + 1,
          failed |-> res.failed,
          files |-> Append(res.files, FileEntry(pdf_file, word_file[1], "success"))]
    ELSE [successful |-> res.successful,
          failed |-> res.failed + 1,
          files |-> res.files]

\* lines 403-416: the results dict after the file's outcome is recorded
RecordResult(res, pdf_file, word_file) ==
    IF word_file # None
    THEN [successful |-> res.successful + 1,
          failed |-> res.failed,
          files |-> Append(res.files, FileEntry(pdf_file, word_file[1], "success"))]
    ELSE [successful |-> res.successful,
          failed |-> res.failed + 1,
          files |-> Append(res.files, FileEntry(pdf_file, <<>>, "failed"))]

---------------------------------------------------------------------------
(* Specification SpecBatch: convert_all on a converter writing to out/.    *)

MaxFiles == 3

OutputFolder == <<"o","u","t">>

EmptyResults == [successful |-> 0, failed |-> 0, files |-> <<>>]

BatchInit ==
    /\ pdf_files \in SeqsUpTo(SamplePaths, MaxFiles)
    /\ valid_pdfs = <<>>
    /\ results = EmptyResults
    /\ file_idx = 1
    /\ ca_pc = "validate"
    /\ ConvIdle
    /\ AsmIdle /\ doc = <<>> /\ DocIdle /\ WebIdle

\* lines 389-398
Validate ==
    /\ ca_pc = "validate"
    /\ valid_pdfs' = validate_pdf_files(pdf_files)
    /\ ca_pc' = IF valid_pdfs' = <<>> THEN "done" ELSE "loop"
    /\ results' = EmptyResults
    /\ UNCHANGED <<pdf_files, file_idx, convVars, asmVars, doc, docVars, webVars>>

\* lines 400-416, one file
ConvertFile ==
    /\ ca_pc = "loop"
    /\ file_idx <= Len(valid_pdfs)
    /\ \E build_raises \in BOOLEAN, save \in SaveOutcomes :
          LET out == convert_pdf_to_word(OutputFolder, valid_pdfs[file_idx], disk,
                                         build_raises, save)
          IN  /\ disk' = out.disk
              /\ calls' = Append(calls, out.call)
              /\ IF out.call.escaped
                 THEN ca_pc' = "raised" /\ UNCHANGED <<results, file_idx>>
                 ELSE /\ results' = RecordResult(results, valid_pdfs[file_idx], out.call.ret)
                      /\ file_idx' = file_idx + 1
                      /\ UNCHANGED ca_pc
    /\ UNCHANGED <<pdf_files, valid_pdfs, asmVars, doc, docVars, webVars>>

\* line 418
ReturnResults ==
    /\ ca_pc = "loop"
    /\ file_idx > Len(valid_pdfs)
    /\ ca_pc' = "done"
    /\ UNCHANGED <<pdf_files, valid_pdfs, results, file_idx, convVars, asmVars, doc,
                   docVars, webVars>>

BatchNext ==
    \/ Validate
    \/ ConvertFile
    \/ ReturnResults

SpecBatch == BatchInit /\ [][BatchNext]_vars

---------------------------------------------------------------------------
(* Specification SpecConvert: a caller of convert_pdf_to_word, any path,   *)
(* call after call on the same output folder.                              *)

MaxCalls == 2

ConvertInit ==
    /\ ConvIdle
    /\ AsmIdle /\ doc = <<>> /\ DocIdle /\ BatchIdle /\ WebIdle

CallConvert ==
    /\ Len(calls) < MaxCalls
    /\ \E pdf_path \in SamplePaths, build_raises \in BOOLEAN, save \in SaveOutcomes :
          LET out == convert_pdf_to_word(OutputFolder, pdf_path, disk, build_raises, save)
          IN  /\ disk' = out.disk
              /\ calls' = Append(calls, out.call)
    /\ UNCHANGED <<asmVars, doc, docVars, batchVars, webVars>>

ConvertNext == CallConvert

SpecConvert == ConvertInit /\ [][ConvertNext]_vars

---------------------------------------------------------------------------
(* app.py: start_conversion, get_job_status and the thread running         *)
(* WebPDFConverter.convert_files_with_progress.                            *)

JobIds == {<<"j","1">>, <<"j","2">>}

WebOutputFolder == <<"t","e","m","p","_","o","u","t","p","u","t","s">>

\* self.output_folder / job_id
SessionOutput(job) == WebOutputFolder \o <<Slash>> \o job

\* the event of lines 73-79 with the 0-based i as 'current'
ProgressEventZeroBased(job, idx, total, file_path) ==
    [name |-> "conversion_progress", job_id |-> job, current |-> idx - 1, total |-> total,
     current_file |-> PathName(file_path), percentage |-> ((idx - 1) * 100) \div total]

\* the event of lines 73-79 for the file at 1-based idx; int((i + 1) / total * 100)
\* is the floor of the exact quotient for every total below 50
ProgressEvent(job, idx, total, file_path) ==
    [name |-> "conversion_progress", job_id |-> job, current |-> idx, total |-> total,
     current_file |-> PathName(file_path), percentage |-> (idx * 100) \div total]

\* the event of lines 107-113
CompleteEvent(job, converted, failed) ==
    [name |-> "conversion_complete", job_id |-> job, converted_files |-> converted,
     failed_files |-> failed, total_converted |-> Len(converted),
     total_failed |-> Len(failed)]

\* lines 85-89
ConvertedEntry(file_path, output_path) ==
    [original_name |-> PathName(file_path), converted_path |-> output_path,
     download_name |-> PathName(output_path)]

\* the job record of lines 55-62 (the two times left out).  Its two lists are
\* its own empty lists until lines 95-96 make them the thread's local lists:
\* shares_lists says which.
NewJob(total) ==
    [status |-> "processing", total |-> total, completed |-> 0, shares_lists |-> FALSE]

\* the job record as a reader of conversion_jobs sees it
JobView(job) ==
    [status |-> job.status, total |-> job.total, completed |-> job.completed,
     converted_files |-> IF job.shares_lists THEN converted_files ELSE <<>>,
     failed_files |-> IF job.shares_lists THEN failed_files ELSE <<>>]

---------------------------------------------------------------------------
(* Specification SpecWeb: one /convert request, its thread, and            *)
(* /job_status polls at any time.                                          *)

MaxRequestFiles == 2

RequestPaths == {PathAR, PathBR, PathBad, PathGone}

WebInit ==
    /\ file_paths \in SeqsUpTo(RequestPaths, MaxRequestFiles)
    /\ job_id = <<>>
    /\ handler_pc = "request"
    /\ conversion_jobs = <<>>
    /\ events = <<>>
    /\ thread_pc = "idle"
    /\ loop_idx = 1
    /\ converted_files = <<>>
    /\ failed_files = <<>>
    /\ status_reply = [queried |-> <<>>, found |-> FALSE, status |-> "", completed |-> 0]
    /\ ConvIdle
    /\ AsmIdle /\ doc = <<>> /\ DocIdle /\ BatchIdle

NotWeb == <<asmVars, doc, docVars, batchVars>>

\* lines 175-176
RejectRequest ==
    /\ handler_pc = "request"
    /\ file_paths = <<>>
    /\ handler_pc' = "rejected"
    /\ UNCHANGED <<file_paths, job_id, conversion_jobs, events, thread_pc, loop_idx,
                   converted_files, failed_files, status_reply, convVars, NotWeb>>

\* lines 179-187: the uuid is drawn and the thread started
StartConversion ==
    /\ handler_pc = "request"
    /\ file_paths # <<>>
    /\ job_id' \in JobIds
    /\ thread_pc' = "init"
    /\ handler_pc' = "started"
    /\ UNCHANGED <<file_paths, conversion_jobs, events, loop_idx, converted_files,
                   failed_files, status_reply, convVars, NotWeb>>

\* lines 189-193: the response with the job_id
ReturnJobId ==
    /\ handler_pc = "started"
    /\ handler_pc' = "returned"
    /\ UNCHANGED <<file_paths, job_id, conversion_jobs, events, thread_pc, loop_idx,
                   converted_files, failed_files, status_reply, convVars, NotWeb>>

\* lines 215-221, for any job id
GetJobStatus ==
    /\ handler_pc # "idle"
    /\ \E q \in JobIds :
          status_reply' =
              IF q \in DOMAIN conversion_jobs
              THEN [queried |-> q, found |-> TRUE,
                    status |-> JobView(conversion_jobs[q]).status,
                    completed |-> JobView(conversion_jobs[q]).completed]
              ELSE [queried |-> q, found |-> FALSE, status |-> "", completed |-> 0]
    /\ UNCHANGED <<file_paths, job_id, handler_pc, conversion_jobs, events, thread_pc,
                   loop_idx, converted_files, failed_files, convVars, NotWeb>>

\* lines 50-68
InitJob ==
    /\ thread_pc = "init"
    /\ conversion_jobs' = (job_id :> NewJob(Len(file_paths))) @@ conversion_jobs
    /\ converted_files' = <<>>
    /\ failed_files' = <<>>
    /\ loop_idx' = 1
    /\ thread_pc' = "emit"
    /\ UNCHANGED <<file_paths, job_id, handler_pc, events, status_reply, convVars, NotWeb>>

\* lines 73-79
EmitProgress ==
    /\ thread_pc = "emit"
    /\ loop_idx <= Len(file_paths)
    /\ events' = Append(events, ProgressEvent(job_id, loop_idx, Len(file_paths),
                                              file_paths[loop_idx]))
    /\ thread_pc' = "convert"
    /\ UNCHANGED <<file_paths, job_id, handler_pc, conversion_jobs, loop_idx,
                   converted_files, failed_files, status_reply, convVars, NotWeb>>

\* lines 73-79 raising, and the except branch of lines 98-100
EmitProgressRaises ==
    /\ thread_pc = "emit"
    /\ loop_idx <= Len(file_paths)
    /\ failed_files' = Append(failed_files, PathName(file_paths[loop_idx]))
    /\ loop_idx' = loop_idx + 1
    /\ UNCHANGED <<file_paths, job_id, handler_pc, conversion_jobs, events, thread_pc,
                   converted_files, status_reply, convVars, NotWeb>>

\* lines 82-91; an exception out of the call would take lines 98-100
WebConvert ==
    /\ thread_pc = "convert"
    /\ \E build_raises \in BOOLEAN, save \in SaveOutcomes :
          LET out == convert_pdf_to_word(SessionOutput(job_id), file_paths[loop_idx], disk,
                                         build_raises, save)
          IN  /\ disk' = out.disk
              /\ calls' = Append(calls, out.call)
              /\ IF out.call.escaped
                 THEN /\ failed_files' = Append(failed_files, PathName(file_paths[loop_idx]))
                      /\ loop_idx' = loop_idx + 1
                      /\ thread_pc' = "emit"
                      /\ UNCHANGED converted_files
                 ELSE /\ IF out.call.ret # None
                         THEN /\ converted_files' =
                                    Append(converted_files,
                                           ConvertedEntry(file_paths[loop_idx], out.call.ret[1]))
                              /\ UNCHANGED failed_files
                         ELSE /\ failed_files' =
                                    Append(failed_files, PathName(file_paths[loop_idx]))
                              /\ UNCHANGED converted_files
                      /\ thread_pc' = "update"
                      /\ UNCHANGED loop_idx
    /\ UNCHANGED <<file_paths, job_id, handler_pc, conversion_jobs, events, status_reply,
                   NotWeb>>

\* lines 94-96
UpdateJob ==
    /\ thread_pc = "update"
    /\ conversion_jobs' = [conversion_jobs EXCEPT ![job_id].completed = loop_idx,
                                                  ![job_id].shares_lists = TRUE]
    /\ loop_idx' = loop_idx + 1
    /\ thread_pc' = "emit"
    /\ UNCHANGED <<file_paths, job_id, handler_pc, events, converted_files, failed_files,
                   status_reply, convVars, NotWeb>>

\* lines 103-104
FinalizeJob ==
    /\ thread_pc = "emit"
    /\ loop_idx > Len(file_paths)
    /\ conversion_jobs' = [conversion_jobs EXCEPT ![job_id].status = "completed"]
    /\ thread_pc' = "complete"
    /\ UNCHANGED <<file_paths, job_id, handler_pc, events, loop_idx, converted_files,
                   failed_files, status_reply, convVars, NotWeb>>

\* lines 107-115
EmitComplete ==
    /\ thread_pc = "complete"
    /\ events' = Append(events, CompleteEvent(job_id, converted_files, failed_files))
    /\ thread_pc' = "done"
    /\ UNCHANGED <<file_paths, job_id, handler_pc, conversion_jobs, loop_idx,
                   converted_files, failed_files, status_reply, convVars, NotWeb>>

\* lines 107-113 raising: nothing catches it and the thread ends
EmitCompleteRaises ==
    /\ thread_pc = "complete"
    /\ thread_pc' = "died"
    /\ UNCHANGED <<file_paths, job_id, handler_pc, conversion_jobs, events, loop_idx,
                   converted_files, failed_files, status_reply, convVars, NotWeb>>

WebNext ==
    \/ RejectRequest
    \/ StartConversion
    \/ ReturnJobId
    \/ GetJobStatus
    \/ InitJob
    \/ EmitProgress
    \/ EmitProgressRaises
    \/ WebConvert
    \/ UpdateJob
    \/ FinalizeJob
    \/ EmitComplete
    \/ EmitCompleteRaises

SpecWeb == WebInit /\ [][WebNext]_vars

---------------------------------------------------------------------------
(* Specification SpecSubtitle: process_text_content on lines whose length  *)
(* lies at and around the two length tests of is_subtitle.                 *)

MaxBoundaryLines == 1

Pad(n) == [k \in 1..n |-> "x"]

\* the line of length n that starts with head, ends with tail, padded between
LineOf(head, tail, n) == head \o Pad(n - Len(head) - Len(tail)) \o tail

BoundaryHeads == {<<"A">>, <<"Z">>, <<"a">>}

BoundaryTails == {
    <<"?">>,
    <<"z">>,
    <<" ","c","r","e","a","t","e">>,
    <<" ","c","r","e","a","t","e",",">>,
    <<" ","c","r","e","a","t","e",".">> }

BoundaryLengths == {12, SubtitleLen \div 2, SubtitleLen - 1, SubtitleLen, SubtitleMaxLen + 1}

BoundaryLines ==
    {LineOf(h, t, n) : h \in BoundaryHeads, t \in BoundaryTails, n \in BoundaryLengths}
      \cup {<<>>, <<"1","2">>, <<"O","V","E","R","V","I","E","W">>,
            <<"-"," ","i","t","e","m">>}

SubtitleInit ==
    /\ text_lines \in SeqsUpTo(BoundaryLines, MaxBoundaryLines)
    /\ i = 1
    /\ doc = <<>>
    /\ current_paragraph = 0
    /\ DocIdle
    /\ ConvIdle /\ BatchIdle /\ WebIdle

SpecSubtitle == SubtitleInit /\ [][AsmNext]_vars

---------------------------------------------------------------------------
(* Claims about process_text_content, checked under SpecAsm.               *)

Sentence1 == <<"T","h","i","s"," ","i","s"," ","a"," ","s","e","n","t","e","n","c","e",".">>
LowerSentence == <<"t","h","i","s"," ","c","o","n","t","i","n","u","e","s",".">>
UpperSentence == <<"N","e","x","t"," ","s","t","a","r","t","s"," ","h","e","r","e",".">>

\* the two lines processed last, stripped, when the loop has processed at least two
PrevA == strip(text_lines[i - 2])
PrevB == strip(text_lines[i - 1])

\* C4: paragraph continuation. Right after two consecutive PlainText lines A, B
\* have been processed, B is in A's paragraph as " " + B, unless A ends in one
\* of . : ! ? and B starts with an uppercase character, and then B is a new
\* paragraph of its own that directly follows A's paragraph.
C4_Continuation ==
    /\ (i >= 3 /\ Branch(PrevA) = "plain" /\ Branch(PrevB) = "plain") =>
          LET n == Len(doc)
          IN  IF EndsSentence(PrevA) /\ IsUpperChar(PrevB[1])
              THEN /\ n >= 2
                   /\ doc[n] = Paragraph(PrevB)
                   /\ doc[n - 1].kind = "paragraph"
                   /\ endswith(doc[n - 1].text, PrevA)
              ELSE /\ n >= 1
                   /\ doc[n].kind = "paragraph"
                   /\ endswith(doc[n].text, PrevA \o <<" ">> \o PrevB)
    /\ (text_lines = <<Sentence1, LowerSentence>> /\ i = 3) =>
          doc = <<Paragraph(Sentence1 \o <<" ">> \o LowerSentence)>>
    /\ (text_lines = <<Sentence1, UpperSentence>> /\ i = 3) =>
          doc = <<Paragraph(Sentence1), Paragraph(UpperSentence)>>

\* C4 witness: a sentence-ending line followed by a lowercase-starting plain line
\* has been merged into one paragraph.
C4_Witness ==
    /\ i >= 3
    /\ Branch(PrevA) = "plain" /\ Branch(PrevB) = "plain"
    /\ EndsSentence(PrevA) /\ ~IsUpperChar(PrevB[1])
    /\ doc # <<>>
    /\ endswith(doc[Len(doc)].text, PrevA \o <<" ">> \o PrevB)

IsNoise(line) == line = <<>> \/ (isdigit(line) /\ Len(line) <= PageNumberMaxLen)

\* C5: first match wins, in the order blank, page number, main title, subtitle,
\* bullet, plain text. Every loop iteration does what the first matching test
\* asks and nothing else: noise adds no block; a main title (whatever later test
\* it also satisfies) adds one level-1 heading; a subtitle that is no main title
\* adds one level-2 heading; a bullet that is neither adds one list item; any
\* other line ends up as the tail of the last paragraph (it is never dropped).
C5_Iteration ==
    LET line == strip(text_lines[i])
        n == Len(doc)
    IN  i' = i + 1 =>
          /\ IsNoise(line) => doc' = doc
          /\ (~IsNoise(line) /\ is_main_title(line)) =>
                doc' = Append(doc, Heading(line, 1))
          /\ (~IsNoise(line) /\ ~is_main_title(line) /\ is_subtitle(line)) =>
                doc' = Append(doc, Heading(line, 2))
          /\ (~IsNoise(line) /\ ~is_main_title(line) /\ ~is_subtitle(line)
                /\ is_bullet_point(line)) =>
                doc' = Append(doc, ListItem(clean_bullet_point(line)))
          /\ (~IsNoise(line) /\ ~is_main_title(line) /\ ~is_subtitle(line)
                /\ ~is_bullet_point(line)) =>
                /\ Len(doc') \in {n, n + 1}
                /\ Len(doc') >= 1
                /\ \A k \in 1..(Len(doc') - 1) : doc'[k] = doc[k]
                /\ doc'[Len(doc')].kind = "paragraph"
                /\ endswith(doc'[Len(doc')].text, line)
                /\ Len(doc') = n =>
                      /\ doc[n].kind = "paragraph"
                      /\ doc'[n].text = doc[n].text \o <<" ">> \o line

\* C5: every iteration of the loop of process_text_content takes exactly the
\* first branch, in the order blank, page number, main title, subtitle, bullet,
\* plain text, whose test the line passes, and emits that branch's block only.
C5_FirstMatchWins == [][C5_Iteration]_vars

\* C5 witness: a line that passes both the main-title and the bullet test has
\* been emitted as a level-1 heading.
C5_Witness ==
    /\ i >= 2
    /\ is_main_title(PrevB) /\ is_bullet_point(PrevB)
    /\ doc # <<>>
    /\ doc[Len(doc)] = Heading(PrevB, 1)

\* C10: right after a PlainText line that ends in one of . : ! ? and whose next
\* line is empty after stripping, or absent, no paragraph is open.
C10_EmptyLookaheadCloses ==
    (i >= 2 /\ Branch(PrevB) = "plain" /\ EndsSentence(PrevB)
        /\ NextLine(text_lines, i - 1) = <<>>)
    => current_paragraph = 0

---------------------------------------------------------------------------
(* Claims about the tables, checked under SpecTable and SpecDoc.           *)

\* the positions of the cells of a raw table, and of those with trimmed text
CellsOf(t) == UNION {{<<r, c>> : c \in 1..Len(t[r])} : r \in 1..Len(t)}
FilledCellsOf(t) ==
    {rc \in CellsOf(t) : t[rc[1]][rc[2]] # NoneCell /\ strip(t[rc[1]][rc[2]][1]) # <<>>}

\* at least one cell, and at least 30% of the cells filled
DenseEnough(t) ==
    /\ Cardinality(CellsOf(t)) > 0
    /\ 10 * Cardinality(FilledCellsOf(t)) >= 3 * Cardinality(CellsOf(t))

\* the rectangular table of a raw table: as many rows, the widest row's width,
\* each cell the trimmed text of the raw cell, or empty where there is none
RectOf(t) ==
    LET width == SetMax({Len(t[r]) : r \in 1..Len(t)})
    IN  [r \in 1..Len(t) |->
            [c \in 1..width |->
                IF c <= Len(t[r]) /\ t[r][c] # NoneCell THEN strip(t[r][c][1]) ELSE <<>>]]

\* the table of the one page of SpecTable
TheTable == content[1].tables[1]

IsTable(b) == b.kind = "table"
TablesOf(d) == SelectSeq(d, IsTable)

\* C6: the table quality filter keeps a raw table exactly when it has at least
\* one cell and the cells with non-empty trimmed text are at least 30% of all
\* cells, the boundary included; an empty table is never kept.
C6_TableFilter ==
    /\ has_meaningful_content(<<>>) = FALSE
    /\ (page_idx > 1 /\ Len(content) = 1 /\ Len(content[1].tables) = 1) =>
          /\ all_tables = IF DenseEnough(TheTable) THEN <<TheTable>> ELSE <<>>
          /\ TheTable = Sparse16 => all_tables = <<>>
          /\ TheTable = Dense46 => all_tables = <<Dense46>>
          /\ TheTable = Exact310 => all_tables = <<Exact310>>
          /\ TheTable = Below210 => all_tables = <<>>

\* C6 witness: the table with exactly 3 of its 10 cells filled has been kept.
C6_Witness ==
    /\ page_idx > 1
    /\ content[1].tables = <<Exact310>>
    /\ all_tables = <<Exact310>>

\* all raw tables of the pages, in page order and within a page in extraction order
RECURSIVE PageOrderTables(_, _)
PageOrderTables(pages, p) ==
    IF p > Len(pages) THEN <<>> ELSE pages[p].tables \o PageOrderTables(pages, p + 1)

IsRendered(t) == t # <<>> /\ DenseEnough(t) /\ t[1] # <<>>

C8_AcceptedTableRendered ==
    DocReturned =>
        LET accepted == SelectSeq(PageOrderTables(content, 1), DenseEnough)
        IN  TablesOf(doc) = [k \in 1..Len(accepted) |-> TableBlock(RectOf(accepted[k]))]

---------------------------------------------------------------------------
(* Claims about the conversion of files, checked under SpecBatch and       *)
(* SpecConvert.                                                            *)

\* a path validate_pdf_files is meant to keep: a .pdf name, and the file exists
PassesValidation(path) == endswith(lower(path), PdfSuffix) /\ FileAt(path).exists

\* a file the extractor gets nothing from: it does not open, or no page has text
Unextractable(path) ==
    \/ ~FileAt(path).opens
    \/ \A p \in 1..Len(FileAt(path).pages) :
          FileAt(path).pages[p].text = None \/ FileAt(path).pages[p].text[1] = <<>>

EntryPdfs == [k \in 1..Len(results.files) |-> results.files[k].pdf]
EntriesWith(status) == {k \in 1..Len(results.files) : results.files[k].status = status}

\* C1: convert_all converts the files in order and a failure stays with its
\* file: while the loop runs and at the return, entry k is the entry of the
\* k-th converted file, it says failed exactly when that conversion returned
\* None (as it does for a file nothing can be extracted from), the two counters
\* are the numbers of success and failed entries, and at the return every file
\* to convert has its entry, whatever failed before it.
C1_BatchIsolation ==
    /\ ca_pc # "raised"
    /\ ca_pc \in {"loop", "done"} =>
          /\ Len(results.files) = file_idx - 1
          /\ Len(calls) = file_idx - 1
          /\ \A k \in 1..Len(results.files) :
                /\ calls[k].pdf = valid_pdfs[k]
                /\ results.files[k].pdf = valid_pdfs[k]
                /\ results.files[k].status \in {"success", "failed"}
                /\ results.files[k].status = "failed" <=> calls[k].ret = None
                /\ results.files[k].status = "success" =>
                      results.files[k].word = calls[k].ret[1]
                /\ Unextractable(valid_pdfs[k]) => results.files[k].status = "failed"
          /\ results.successful = Cardinality(EntriesWith("success"))
          /\ results.failed = Cardinality(EntriesWith("failed"))
    /\ ca_pc = "done" =>
          /\ Len(results.files) = Len(valid_pdfs)
          /\ \E f \in [1..Len(valid_pdfs) -> 1..Len(pdf_files)] :
                /\ \A k \in 1..Len(valid_pdfs) : pdf_files[f[k]] = valid_pdfs[k]
                /\ \A k \in 1..(Len(valid_pdfs) - 1) : f[k] < f[k + 1]
    /\ (ca_pc = "done" /\ pdf_files = <<PathAR, PathBad, PathS>>
            /\ calls[1].ret # None /\ calls[3].ret # None) =>
          /\ results.successful = 2 /\ results.failed = 1
          /\ [k \in 1..3 |-> results.files[k].status] = <<"success", "failed", "success">>

\* C1 witness: three files, the second unextractable, converted with 2 successes
\* and 1 failure.
C1_Witness ==
    /\ ca_pc = "done"
    /\ pdf_files = <<PathAR, PathBad, PathS>>
    /\ results.successful = 2 /\ results.failed = 1
    /\ results.files[2].status = "failed"
    /\ results.files[3].status = "success"

C3_Call ==
    calls' # calls =>
        LET c == calls'[Len(calls')]
        IN  /\ calls' = Append(calls, c)
            /\ ~c.escaped
            /\ c.ret \in {None, Str(WordPath(OutputFolder, c.pdf))}
            /\ Unextractable(c.pdf) =>
                  /\ c.ret = None /\ ~c.built /\ ~c.save_called
                  /\ disk' = disk
            /\ ~c.built => c.ret = None /\ ~c.save_called /\ disk' = disk
            /\ c.ret # None =>
                  /\ c.built /\ c.save_called
                  /\ c.ret[1] \in DOMAIN disk'
                  /\ disk'[c.ret[1]].complete

\* C3: every call of convert_pdf_to_word ends as C3_Call says: no exception
\* escapes it, it returns the output path or None, and None without building or
\* saving when nothing was extracted.
C3_NoExceptionEscapes == [][C3_Call]_vars

\* C3 witness: one call on the file that cannot be opened has returned None, and
\* one call whose save failed has returned None too.
C3_Witness ==
    /\ Len(calls) = 2
    /\ calls[1].pdf = PathBad /\ calls[1].ret = None /\ ~calls[1].built
    /\ calls[2].pdf = PathAR /\ calls[2].save_called /\ calls[2].ret = None

---------------------------------------------------------------------------
(* Claims about the progress events, checked under SpecWeb.                *)

\* the files of the job that are finished: converted or failed
Finished == Len(converted_files) + Len(failed_files)

LastEvent == events[Len(events)]

IsProgress(e) == e.name = "conversion_progress"

\* C9 as claimed: when a progress event with current = k has just been emitted,
\* the k-th file is finished; and no progress event follows the complete event.
C9_ProgressAfterFile ==
    /\ (thread_pc = "convert" /\ events # <<>> /\ IsProgress(LastEvent)) =>
          Finished >= LastEvent.current
    /\ \A n \in 1..(Len(events) - 1) : IsProgress(events[n])

\* C9 as amended: a progress event with current = k is emitted before the k-th
\* file is converted, when exactly the k - 1 files before it are finished and
\* k - 1 is the most convert_pdf_to_word has been called; the complete event is
\* emitted once, after every progress event, when all files are finished.
C9_Emit ==
    events' # events =>
        LET e == events'[Len(events')]
        IN  /\ events' = Append(events, e)
            /\ e.job_id = job_id
            /\ \A n \in 1..Len(events) : IsProgress(events[n])
            /\ IsProgress(e) =>
                  /\ e.current = loop_idx
                  /\ Finished = e.current - 1
                  /\ Len(calls) <= e.current - 1
                  /\ Finished' = Finished
                  /\ calls' = calls
            /\ ~IsProgress(e) =>
                  /\ e.name = "conversion_complete"
                  /\ Finished = Len(file_paths)
                  /\ e.total_converted + e.total_failed = Len(file_paths)

\* C9 as amended: every emission is as C9_Emit says: the progress event with
\* current = k comes before the conversion of the k-th file, the complete event
\* after every progress event.
C9_ProgressBeforeFile == [][C9_Emit]_vars

\* C9 witness: a job of two files has emitted two progress events and then the
\* complete event.
C9_Witness ==
    /\ thread_pc = "done"
    /\ Len(events) = 3
    /\ IsProgress(events[1]) /\ events[1].current = 1
    /\ IsProgress(events[2]) /\ events[2].current = 2
    /\ events[3].name = "conversion_complete"

---------------------------------------------------------------------------
(* Claims about is_subtitle, checked under SpecSubtitle.                   *)

\* the content test of the subtitle rule: an uppercase first character, and a
\* question mark at the end or a subtitle keyword with no . or , at the end
SubtitleShape(line) ==
    /\ line # <<>>
    /\ IsUpperChar(line[1])
    /\ \/ endswith(line, <<"?">>)
       \/ /\ ~endswith(line, <<".">>)
          /\ ~endswith(line, <<",">>)
          /\ \E w \in SubtitleKeywords : contains(lower(line), w)

C11_Iteration ==
    LET line == strip(text_lines[i])
    IN  i' = i + 1 =>
          /\ (~IsNoise(line) /\ ~is_main_title(line) /\ Len(line) <= 120
                /\ SubtitleShape(line)) =>
                doc' = Append(doc, Heading(line, 2))
          /\ Len(line) > 120 => doc' # Append(doc, Heading(line, 2))

\* C11: every line that is no noise and no main title, is at most 120 long
\* (120 included) and has the subtitle shape is emitted as a level-2 heading by
\* the iteration that handles it, and no line longer than 120 is.
C11_SubtitleUpTo120 == [][C11_Iteration]_vars

---------------------------------------------------------------------------
(* Claims about the output files of a batch, checked under SpecBatch.      *)

Successes == EntriesWith("success")

\* the file doc.save writes for the conversion of pdf_path
ConversionOf(pdf_path) == SavedFile(create_word_document(extract_text_from_pdf(pdf_path)))

\* C12: when convert_all has returned, the success entries of distinct input
\* paths name distinct output paths, and the output document of every success
\* entry that no later entry of the same input path follows is on the disk and
\* holds the conversion of that entry's own input file.
C12_DistinctOutputs ==
    ca_pc = "done" =>
        /\ \A j \in Successes : \A k \in Successes :
              results.files[j].pdf # results.files[k].pdf =>
                  results.files[j].word # results.files[k].word
        /\ \A k \in Successes :
              (\A j \in (k + 1)..Len(results.files) :
                    results.files[j].pdf # results.files[k].pdf) =>
                  /\ results.files[k].word \in DOMAIN disk
                  /\ disk[results.files[k].word] = ConversionOf(results.files[k].pdf)

---------------------------------------------------------------------------
(* Claims about the job record, checked under SpecWeb.                     *)

C13_Step ==
    /\ handler_pc' = "returned" => job_id' \in DOMAIN conversion_jobs'
    /\ (handler_pc = "returned" /\ status_reply' # status_reply
          /\ status_reply'.queried = job_id) => status_reply'.found

\* C13: once /convert has returned the job_id, the job record of that job_id
\* is in conversion_jobs, and a /job_status query for it that is answered from
\* then on finds the job, never 'Job not found'.
C13_ReturnedJobFound == [][C13_Step]_vars

=============================================================================
